---- MODULE Spec2Model ----
(***************************************************************************)
(* Model of anchor-stack's rules generator (services/rules_generator.py)   *)
(* and of the StackSpec validator exercised by tests/test_models.py.       *)
(*                                                                         *)
(* Text is modelled as a sequence of chunks (strings); concatenation of    *)
(* Python strings is \o.  Where the code looks inside a string (substring  *)
(* tests, lower-casing, first/last character) the string is a sequence of  *)
(* one-character chunks.                                                   *)
(***************************************************************************)
EXTENDS Integers, Sequences, FiniteSets, TLC

VARIABLES
    files,      \* project tree: path -> [exists, text]
    last,       \* the most recent call on the generator: arguments and outcome
    hist,       \* history: last completed generate, appends since, write failures
    procs,      \* concurrent append_pack_rules invocations (SpecConc)
    input,      \* input of a pure computation (SpecRender, SpecValidate)
    output      \* its result

vars == <<files, last, hist, procs, input, output>>

----------------------------------------------------------------------------
(* Bounds of the model *)

MaxAppends == 2
MaxFailures == 1
MaxFaultyAppends == 1
MaxDirs == 3
MaxNameLen == 3
MaxCaps == 3

----------------------------------------------------------------------------
(* Text helpers *)

RECURSIVE Join(_, _)
\* sep.join(parts)
Join(parts, sep) ==
    IF parts = <<>> THEN <<>>
    ELSE IF Len(parts) = 1 THEN Head(parts)
    ELSE Head(parts) \o sep \o Join(Tail(parts), sep)

\* Python's `needle in hay` on strings
StrIn(needle, hay) ==
    \E i \in 0..(Len(hay) - Len(needle)) :
        SubSeq(hay, i + 1, i + Len(needle)) = needle

IsPrefix(s, t) == Len(s) <= Len(t) /\ SubSeq(t, 1, Len(s)) = s

RECURSIVE SeqsUpTo(_, _)
\* all sequences over S of length at most n
SeqsUpTo(S, n) ==
    IF n = 0 THEN {<<>>}
    ELSE LET shorter == SeqsUpTo(S, n - 1)
         IN shorter \cup {Append(s, x) : s \in shorter, x \in S}

Range(s) == {s[i] : i \in DOMAIN s}

----------------------------------------------------------------------------
(* The static table of tools and output paths *)

ToolOrder == <<"cursor", "claude", "windsurf", "copilot", "common">>

Tools == Range(ToolOrder)

\* mutant: the claude entry points at another file
M_RULES_PATHS ==
    [t \in Tools |->
        CASE t = "cursor"   -> ".cursor/rules/anchor-stack.mdc"
          [] t = "claude"   -> "AGENTS.md"
          [] t = "windsurf" -> ".windsurfrules"
          [] t = "copilot"  -> ".github/copilot-instructions.md"
          [] t = "common"   -> "docs/PROJECT_RULES.md"]

RULES_PATHS ==
    [t \in Tools |->
        CASE t = "cursor"   -> ".cursor/rules/anchor-stack.mdc"
          [] t = "claude"   -> "CLAUDE.md"
          [] t = "windsurf" -> ".windsurfrules"
          [] t = "copilot"  -> ".github/copilot-instructions.md"
          [] t = "common"   -> "docs/PROJECT_RULES.md"]

Paths == {RULES_PATHS[t] : t \in Tools}

----------------------------------------------------------------------------
(* Input data: stacks, specifications, packs *)

P_src_app  == <<"s","r","c","/","a","p","p">>
P_src_ui   == <<"s","r","c","/","u","i">>
P_lib_core == <<"s","r","c","/","l","i","b","/","c","o","r","e">>
P_lib_db   == <<"s","r","c","/","l","i","b","/","d","b">>
P_lib_cor  == <<"l","i","b","/","c","o","r">>
P_mylib_db == <<"m","y","l","i","b","/","d","b","x">>

DirPool == {P_src_app, P_src_ui, P_lib_core, P_lib_db, P_lib_cor, P_mylib_db}

MarkerCore == <<"l","i","b","/","c","o","r","e">>
MarkerDb   == <<"l","i","b","/","d","b">>

MkStack(name, display, version, dirs) ==
    [name |-> name, display_name |-> display, version |-> version,
     stack_id |-> name \o <<"@">> \o version,
     directory_structure |-> dirs,
     builtin_features |-> [logging |-> TRUE, config_management |-> TRUE]]

NextStack == MkStack(<<"nextjs">>, <<"Next.js">>, <<"2025.1">>,
                     <<P_src_ui, P_lib_db>>)
NoStack   == MkStack(<<>>, <<>>, <<>>, <<>>)

Stacks == {NextStack}

\* a StackSpec as the generator reads it: app_name and the optional description
MkSpec(app_name, has_desc, desc) ==
    [app_name |-> app_name, description |-> [present |-> has_desc, text |-> desc]]

Specs == {MkSpec(<<"my-app">>, FALSE, <<>>)}
NoSpec == MkSpec(<<>>, FALSE, <<>>)

\* a Pack: rules_content is optional (None) and may be the empty string
MkPack(name, display, has_rules, rules) ==
    [name |-> name, display_name |-> display,
     rules_content |-> [present |-> has_rules, text |-> rules]]

PackAuth  == MkPack(<<"auth">>, <<"Auth Pack">>, TRUE, <<"Use sessions.">>)
PackDb    == MkPack(<<"db">>, <<"Database">>, TRUE, <<"Use the ORM.", "\n", "No raw SQL.">>)
PackUi    == MkPack(<<"ui">>, <<"UI Kit">>, FALSE, <<>>)
PackEmpty == MkPack(<<"empty">>, <<"Empty">>, TRUE, <<>>)

RulePacks == {PackAuth, PackDb}
Packs == RulePacks \cup {PackUi, PackEmpty}
PackLists == {<<>>, <<PackAuth, PackUi>>}

\* truthiness of an optional string: None and "" are falsy
Truthy(opt) == opt.present /\ opt.text /= <<>>

----------------------------------------------------------------------------
(* RulesGenerator: rendering *)

_build_context(stack, spec, packs) ==
    [app_name |-> spec.app_name,
     app_description |->
        IF Truthy(spec.description) THEN spec.description.text
        ELSE <<"A ">> \o stack.display_name \o <<" project">>,
     stack_name |-> stack.name,
     stack_version |-> stack.version,
     stack_display_name |-> stack.display_name,
     stack_id |-> stack.stack_id,
     packs |-> [i \in DOMAIN packs |-> packs[i].name],
     packs_display |-> [i \in DOMAIN packs |-> packs[i].display_name],
     directory_structure |-> stack.directory_structure,
     has_logging |-> stack.builtin_features.logging,
     has_config |-> stack.builtin_features.config_management]

\* mutant: only the core-library marker protects a directory
M_is_protected_core_only(dir_path) == StrIn(MarkerCore, dir_path)

\* the test of line 172
is_protected(dir_path) == StrIn(MarkerCore, dir_path) \/ StrIn(MarkerDb, dir_path)

RECURSIVE protected_dirs(_)
protected_dirs(directory_structure) ==
    IF directory_structure = <<>> THEN <<>>
    ELSE LET dir_path == Head(directory_structure)
             rest == protected_dirs(Tail(directory_structure))
         IN IF is_protected(dir_path) THEN <<dir_path>> \o rest ELSE rest

RECURSIVE modifiable_dirs(_)
modifiable_dirs(directory_structure) ==
    IF directory_structure = <<>> THEN <<>>
    ELSE LET dir_path == Head(directory_structure)
             rest == modifiable_dirs(Tail(directory_structure))
         IN IF is_protected(dir_path) THEN rest ELSE <<dir_path>> \o rest

\* <bq> stands for the backquote character, which a TLA+ string cannot hold
BulletOpen  == "- <bq>"
BulletClose == "<bq>"

_format_dir_list(directories) ==
    IF directories = <<>> THEN <<"- (none)">>
    ELSE Join([i \in DOMAIN directories |->
                  <<BulletOpen>> \o directories[i] \o <<BulletClose>>],
              <<"\n">>)

\* the fixed pieces of the template of lines 177-281
T_Title      == "# Project Rules - "
T_Overview   == "\n\n## Project Overview\n- **Project Name**: "
T_Stack      == "\n- **Stack**: "
T_Packs      == "\n- **Installed Packs**: "
T_Modifiable == "\n\n## Directory Structure\n\n### Modifiable Directories\nThese directories can be freely modified:\n"
T_Protected  == "\n\n### Protected Directories\nThese directories contain framework code. Do not modify directly:\n"
T_Fixed      == "\n\n## Logging Standards\n[...]\n## Adding New Features\n[...]\n## Debug Guide\n[...]\n## Prohibited Actions\n[...]\n## Configuration Management\n[...]\n\n"

protected_section(dirs) ==
    IF dirs /= <<>> THEN _format_dir_list(dirs) ELSE <<"- None">>

_generate_rules_content(context) ==
    LET app_name == context.app_name
        stack_id == context.stack_id
        packs == context.packs
        directory_structure == context.directory_structure
    IN  <<T_Title>> \o app_name
        \o <<T_Overview>> \o app_name
        \o <<T_Stack>> \o stack_id
        \o <<T_Packs>> \o (IF packs /= <<>> THEN Join(packs, <<", ">>) ELSE <<"None">>)
        \o <<T_Modifiable>> \o _format_dir_list(modifiable_dirs(directory_structure))
        \o <<T_Protected>> \o protected_section(protected_dirs(directory_structure))
        \o <<T_Fixed>>

H_Cursor  == "---\ndescription: Project rules and conventions for AI assistance\nglobs: [\"**/*\"]\n---\n\n"
H_Claude  == "# CLAUDE.md - Project Instructions\n\nThis file contains instructions for Claude Code when working on this project.\n\n"
H_Copilot == "# GitHub Copilot Instructions\n\nThese instructions guide GitHub Copilot when generating code for this project.\n\n"

\* mutant: the windsurf branch prepends a header as well
M_customize_windsurf_header(content, tool_name) ==
    IF tool_name = "cursor" THEN <<H_Cursor>> \o content
    ELSE IF tool_name = "claude" THEN <<H_Claude>> \o content
    ELSE IF tool_name = "windsurf" THEN <<H_Claude>> \o content
    ELSE IF tool_name = "copilot" THEN <<H_Copilot>> \o content
    ELSE content

_customize_for_tool(content, tool_name) ==
    IF tool_name = "cursor" THEN <<H_Cursor>> \o content
    ELSE IF tool_name = "claude" THEN <<H_Claude>> \o content
    ELSE IF tool_name = "windsurf" THEN content
    ELSE IF tool_name = "copilot" THEN <<H_Copilot>> \o content
    ELSE content

_format_pack_rules(pack, tool_name) ==
    <<"\n---\n\n## ">> \o pack.display_name \o <<" (">> \o pack.name
    \o <<")\n\n">> \o pack.rules_content.text \o <<"\n">>

\* mutant: the section replaces the file's content instead of following it
M_new_content_overwrite(existing_content, pack_section) ==
    <<"\n">> \o pack_section

\* line 130
new_content(existing_content, pack_section) ==
    existing_content \o <<"\n">> \o pack_section

----------------------------------------------------------------------------
(* FileWriter (external collaborator) and the project tree *)

NoFile == [exists |-> FALSE, text |-> <<>>]

\* write_file(path, content): persists content at base_dir/path.  A write that
\* raises leaves the file as it was or truncated, whichever the OS produced.
write_file(fs, file_path, content, fails, truncates) ==
    IF ~fails THEN [fs EXCEPT ![file_path] = [exists |-> TRUE, text |-> content]]
    ELSE IF truncates THEN [fs EXCEPT ![file_path] = [exists |-> TRUE, text |-> <<>>]]
    ELSE fs

----------------------------------------------------------------------------
(* RulesGenerator: generate and append_pack_rules *)

\* rules_files[tool_name] = file_path on an insertion-ordered dict, kept as a
\* sequence of <<key, value>> pairs
DictSet(d, k, v) ==
    IF \E i \in DOMAIN d : d[i][1] = k
    THEN [i \in DOMAIN d |-> IF d[i][1] = k THEN <<k, v>> ELSE d[i]]
    ELSE Append(d, <<k, v>>)

DictKeys(d) == {d[i][1] : i \in DOMAIN d}

\* mutant: the loop goes on after a write raised
M_generate_step_continues(st, tool_name, rules_content, bad, truncates) ==
    LET file_path == RULES_PATHS[tool_name]
        tool_content == _customize_for_tool(rules_content, tool_name)
        fails == (file_path = bad)
    IN [fs |-> write_file(st.fs, file_path, tool_content, fails, truncates),
        writes |-> Append(st.writes, file_path),
        rules_files |-> IF fails THEN st.rules_files
                        ELSE DictSet(st.rules_files, tool_name, file_path),
        result |-> FALSE,
        raised |-> st.raised \/ fails]

\* one iteration of the loop of lines 80-91; bad is the path on which the
\* writer raises ("none": no write raises)
generate_step(st, tool_name, rules_content, bad, truncates) ==
    IF st.raised THEN st
    ELSE LET file_path == RULES_PATHS[tool_name]
             tool_content == _customize_for_tool(rules_content, tool_name)
             fails == (file_path = bad)
         IN [fs |-> write_file(st.fs, file_path, tool_content, fails, truncates),
             writes |-> Append(st.writes, file_path),
             rules_files |-> IF fails THEN st.rules_files
                             ELSE DictSet(st.rules_files, tool_name, file_path),
             result |-> FALSE,
             raised |-> fails]

RECURSIVE generate_loop(_, _, _, _, _)
generate_loop(i, st, rules_content, bad, truncates) ==
    IF i > Len(ToolOrder) THEN st
    ELSE generate_loop(i + 1,
                       generate_step(st, ToolOrder[i], rules_content, bad, truncates),
                       rules_content, bad, truncates)

generate(fs, stack, spec, packs, bad, truncates) ==
    LET context == _build_context(stack, spec, packs)
        rules_content == _generate_rules_content(context)
    IN generate_loop(1, [fs |-> fs, writes |-> <<>>, rules_files |-> <<>>,
                         result |-> FALSE, raised |-> FALSE],
                     rules_content, bad, truncates)

\* mutant: the existence test is dropped, a missing file is created
M_append_step_creates(st, pack, tool_name, bad, truncates) ==
    IF st.raised THEN st
    ELSE LET file_path == RULES_PATHS[tool_name]
             existing_content == st.fs[file_path].text
             pack_section == _format_pack_rules(pack, tool_name)
             fails == (file_path = bad)
         IN [st EXCEPT
                !.fs = write_file(st.fs, file_path,
                                  new_content(existing_content, pack_section),
                                  fails, truncates),
                !.writes = Append(st.writes, file_path),
                !.raised = fails]

\* mutant: a section already present in the file is not appended again
M_append_step_idempotent(st, pack, tool_name, bad, truncates) ==
    IF st.raised THEN st
    ELSE LET file_path == RULES_PATHS[tool_name]
         IN IF st.fs[file_path].exists
               /\ ~StrIn(_format_pack_rules(pack, tool_name), st.fs[file_path].text)
            THEN LET existing_content == st.fs[file_path].text
                     pack_section == _format_pack_rules(pack, tool_name)
                     fails == (file_path = bad)
                 IN [st EXCEPT
                        !.fs = write_file(st.fs, file_path,
                                          new_content(existing_content, pack_section),
                                          fails, truncates),
                        !.writes = Append(st.writes, file_path),
                        !.raised = fails]
            ELSE st

\* one iteration of the loop of lines 125-131
append_step(st, pack, tool_name, bad, truncates) ==
    IF st.raised THEN st
    ELSE LET file_path == RULES_PATHS[tool_name]
         IN IF st.fs[file_path].exists
            THEN LET existing_content == st.fs[file_path].text
                     pack_section == _format_pack_rules(pack, tool_name)
                     fails == (file_path = bad)
                 IN [st EXCEPT
                        !.fs = write_file(st.fs, file_path,
                                          new_content(existing_content, pack_section),
                                          fails, truncates),
                        !.writes = Append(st.writes, file_path),
                        !.raised = fails]
            ELSE st

RECURSIVE append_loop(_, _, _, _, _)
append_loop(i, st, pack, bad, truncates) ==
    IF i > Len(ToolOrder) THEN st
    ELSE append_loop(i + 1, append_step(st, pack, ToolOrder[i], bad, truncates),
                     pack, bad, truncates)

\* mutant: only an absent rules text is a no-op, an empty one is appended
M_append_pack_rules_none_only(fs, pack, bad, truncates) ==
    LET st0 == [fs |-> fs, writes |-> <<>>, rules_files |-> <<>>,
                result |-> FALSE, raised |-> FALSE]
    IN IF ~pack.rules_content.present THEN st0
       ELSE LET st == append_loop(1, st0, pack, bad, truncates)
            IN [st EXCEPT !.result = ~st.raised]

append_pack_rules(fs, pack, bad, truncates) ==
    LET st0 == [fs |-> fs, writes |-> <<>>, rules_files |-> <<>>,
                result |-> FALSE, raised |-> FALSE]
    IN IF ~Truthy(pack.rules_content) THEN st0
       ELSE LET st == append_loop(1, st0, pack, bad, truncates)
            IN [st EXCEPT !.result = ~st.raised]

----------------------------------------------------------------------------
(* Spec: calls on one project tree, one after the other *)

PriorText == <<"# Hand-written rules\n">>

Idle == "idle"

NoCall == [op |-> "none", stack |-> NoStack, spec |-> NoSpec, packs |-> <<>>,
           raised |-> FALSE, rules_files |-> <<>>, result |-> FALSE,
           writes |-> <<>>]

NoHist == [gen |-> FALSE, stack |-> NoStack, spec |-> NoSpec, packs |-> <<>>,
           appended |-> <<>>, failures |-> 0, faulty |-> FALSE]

Faults == {<<"none", FALSE>>} \cup (Paths \X BOOLEAN)

Init ==
    /\ files \in [Paths -> {NoFile, [exists |-> TRUE, text |-> PriorText]}]
    /\ last = NoCall
    /\ hist = NoHist
    /\ procs = Idle
    /\ input = Idle
    /\ output = Idle

Generate ==
    \E stack \in Stacks, spec \in Specs, packs \in PackLists, fault \in Faults :
        LET r == generate(files, stack, spec, packs, fault[1], fault[2])
        IN /\ fault[1] /= "none" => (hist.faulty /\ hist.failures < MaxFailures)
           /\ files' = r.fs
           /\ last' = [op |-> "generate", stack |-> stack, spec |-> spec,
                       packs |-> packs, raised |-> r.raised,
                       rules_files |-> IF r.raised THEN <<>> ELSE r.rules_files,
                       result |-> FALSE, writes |-> r.writes]
           /\ hist' = IF r.raised
                      THEN [hist EXCEPT !.failures = @ + 1]
                      ELSE [gen |-> TRUE, stack |-> stack, spec |-> spec,
                            packs |-> packs, appended |-> <<>>,
                            failures |-> hist.failures, faulty |-> hist.faulty]
           /\ UNCHANGED <<procs, input, output>>

AppendPackRules ==
    \E pack \in Packs, fault \in Faults :
        LET r == append_pack_rules(files, pack, fault[1], fault[2])
        IN /\ fault[1] /= "none" => (hist.faulty /\ hist.failures < MaxFailures)
           /\ Truthy(pack.rules_content) =>
                 Len(hist.appended) < (IF hist.faulty THEN MaxFaultyAppends
                                       ELSE MaxAppends)
           /\ files' = r.fs
           /\ last' = [op |-> "append", stack |-> NoStack, spec |-> NoSpec,
                       packs |-> <<pack>>, raised |-> r.raised,
                       rules_files |-> <<>>, result |-> r.result,
                       writes |-> r.writes]
           /\ hist' = IF ~Truthy(pack.rules_content) THEN hist
                      ELSE [hist EXCEPT
                               !.appended = Append(@, pack),
                               !.failures = IF r.raised THEN @ + 1 ELSE @]
           /\ UNCHANGED <<procs, input, output>>

Next == Generate \/ AppendPackRules

\* the file-writer never raises
Spec == Init /\ [][Next]_vars

\* the file-writer may raise, on any path
InitFaulty ==
    /\ files \in [Paths -> {NoFile, [exists |-> TRUE, text |-> PriorText]}]
    /\ last = NoCall
    /\ hist = [NoHist EXCEPT !.faulty = TRUE]
    /\ procs = Idle
    /\ input = Idle
    /\ output = Idle

SpecFaulty == InitFaulty /\ [][Next]_vars

----------------------------------------------------------------------------
(* Properties of generate and append_pack_rules *)

\* the table of the specification, section 4.2
FixedTools == <<"cursor", "claude", "windsurf", "copilot", "common">>

FixedPath(t) ==
    CASE t = "cursor"   -> ".cursor/rules/anchor-stack.mdc"
      [] t = "claude"   -> "CLAUDE.md"
      [] t = "windsurf" -> ".windsurfrules"
      [] t = "copilot"  -> ".github/copilot-instructions.md"
      [] t = "common"   -> "docs/PROJECT_RULES.md"

FixedPaths == {FixedPath(FixedTools[i]) : i \in 1..5}

\* the text generate writes for a tool, given the call's arguments
Variant(stack, spec, packs, t) ==
    _customize_for_tool(_generate_rules_content(_build_context(stack, spec, packs)), t)

\* C1: a generate in which no write fails returns a mapping with exactly the
\* five tool keys, each mapped to its fixed path, and issues exactly one write
\* for each of the five paths and none for any other path.
C1_GenerateMapping ==
    (last.op = "generate" /\ ~last.raised) =>
        /\ Len(last.rules_files) = 5
        /\ DictKeys(last.rules_files) = Range(FixedTools)
        /\ \A i \in DOMAIN last.rules_files :
              last.rules_files[i][2] = FixedPath(last.rules_files[i][1])
        /\ Len(last.writes) = 5
        /\ Range(last.writes) = FixedPaths
        /\ DOMAIN files = FixedPaths
        /\ \A p \in FixedPaths : files[p].exists

C1_Witness ==
    last.op = "generate" /\ ~last.raised /\ Len(last.rules_files) = 5

C3_AppendNoRules ==
    [][(last'.op = "append" /\ ~Truthy(last'.packs[1].rules_content)) =>
        /\ last'.result = FALSE
        /\ ~last'.raised
        /\ last'.writes = <<>>
        /\ files' = files]_vars

C3_Witness ==
    /\ last.op = "append"
    /\ last.packs[1].rules_content.present
    /\ last.packs[1].rules_content.text = <<>>
    /\ last.result = FALSE
    /\ \E p \in FixedPaths : files[p].exists

\* C4: when the writer raises on the write for the k-th tool, generate raises
\* and returns no mapping, the files of the k-1 earlier tools hold their
\* generated content, and no write is attempted for the later tools, whose
\* files stay as they were.
C4_GenerateBestEffort ==
    [][(last'.op = "generate" /\ last'.raised) =>
        LET k == Len(last'.writes)
        IN /\ k \in 1..5
           /\ last'.rules_files = <<>>
           /\ \A i \in 1..k : last'.writes[i] = FixedPath(FixedTools[i])
           /\ \A i \in 1..5 :
                LET p == FixedPath(FixedTools[i])
                IN /\ i < k =>
                        files'[p] =
                            [exists |-> TRUE,
                             text |-> Variant(last'.stack, last'.spec, last'.packs,
                                              FixedTools[i])]
                   /\ i > k => files'[p] = files[p]]_vars

C4_Witness ==
    /\ last.op = "generate" /\ last.raised /\ Len(last.writes) = 3
    /\ files[FixedPath("cursor")].text =
          Variant(last.stack, last.spec, last.packs, "cursor")
    /\ ~files[FixedPath("common")].exists

RECURSIVE Sections(_, _)
\* what the appends of packs ps since the last generate add to tool t's file
Sections(ps, t) ==
    IF ps = <<>> THEN <<>>
    ELSE <<"\n">> \o _format_pack_rules(Head(ps), t) \o Sections(Tail(ps), t)

\* C10: when no write has failed, each rules file holds the variant written by
\* the most recent generate followed, in call order, by one section per
\* append_pack_rules call with non-empty rules made since; a generate leaves
\* no pack's rules text in the files, not even of the packs it was given.
C10_FileContent ==
    (hist.gen /\ hist.failures = 0) =>
        \A t \in Range(FixedTools) :
            /\ files[FixedPath(t)] =
                  [exists |-> TRUE,
                   text |-> Variant(hist.stack, hist.spec, hist.packs, t)
                            \o Sections(hist.appended, t)]
            /\ hist.appended = <<>> =>
                  \A i \in DOMAIN hist.packs :
                      Truthy(hist.packs[i].rules_content) =>
                          ~StrIn(hist.packs[i].rules_content.text,
                                 files[FixedPath(t)].text)

C10_Witness ==
    /\ hist.gen /\ hist.failures = 0
    /\ Len(hist.appended) = 2 /\ hist.appended[1] = hist.appended[2]
    /\ last.op = "append" /\ last.result

----------------------------------------------------------------------------
(* SpecRender: one generate call on an empty tree, over many inputs *)

EmptyTree == [p \in Paths |-> NoFile]

NoOutput == [done |-> FALSE]

RenderPackLists == {<<>>, <<PackAuth>>, <<PackAuth, PackDb>>}

InitRender ==
    /\ input \in {[stack |-> MkStack(<<"nextjs">>, <<"Next.js">>, <<"2025.1">>, dirs),
                   spec |-> MkSpec(<<"my-app">>, FALSE, <<>>),
                   packs |-> packs] :
                     dirs \in SeqsUpTo(DirPool, MaxDirs), packs \in RenderPackLists}
    /\ output = NoOutput
    /\ files = EmptyTree
    /\ last = NoCall
    /\ hist = NoHist
    /\ procs = Idle

Render ==
    /\ ~output.done
    /\ output' =
          [done |-> TRUE,
           rules_content |->
               _generate_rules_content(
                   _build_context(input.stack, input.spec, input.packs)),
           written |->
               generate(files, input.stack, input.spec, input.packs, "none", FALSE).fs]
    /\ UNCHANGED <<files, last, hist, procs, input>>

NextRender == Render

SpecRender == InitRender /\ [][NextRender]_vars

\* the chunks of text strictly between chunk a and chunk b
Between(text, a, b) ==
    LET ia == CHOOSE i \in DOMAIN text : text[i] = a
        ib == CHOOSE i \in DOMAIN text : text[i] = b
    IN SubSeq(text, ia + 1, ib - 1)

HasMarker(path) ==
    \E i \in 1..Len(path), j \in 1..Len(path) :
        SubSeq(path, i, j) \in {<<"l","i","b","/","c","o","r","e">>,
                                <<"l","i","b","/","d","b">>}

LacksMarker(path) == ~HasMarker(path)

RECURSIVE BulletList(_)
\* a markdown bullet list, one directory per line
BulletList(ds) ==
    IF Len(ds) = 1 THEN <<BulletOpen>> \o ds[1] \o <<BulletClose>>
    ELSE <<BulletOpen>> \o ds[1] \o <<BulletClose, "\n">> \o BulletList(Tail(ds))

\* C7: the rendered body lists every directory in exactly one of the two
\* lists, in input order: protected iff its path contains lib/core or lib/db,
\* modifiable otherwise; an empty protected list renders as "- None".
C7_DirectoryPartition ==
    output.done =>
        LET dirs == input.stack.directory_structure
            prot == SelectSeq(dirs, HasMarker)
            mod == SelectSeq(dirs, LacksMarker)
            modSection == Between(output.rules_content, T_Modifiable, T_Protected)
            protSection == Between(output.rules_content, T_Protected, T_Fixed)
        IN /\ mod /= <<>> => modSection = BulletList(mod)
           /\ mod = <<>> => BulletOpen \notin Range(modSection)
           /\ prot /= <<>> => protSection = BulletList(prot)
           /\ prot = <<>> => protSection = <<"- None">>

C7_Witness ==
    /\ output.done
    /\ input.stack.directory_structure = <<P_mylib_db, P_lib_cor, P_lib_core>>
    /\ Between(output.rules_content, T_Protected, T_Fixed)
          = BulletList(<<P_mylib_db, P_lib_core>>)

IsSuffix(s, t) ==
    Len(s) <= Len(t) /\ SubSeq(t, Len(t) - Len(s) + 1, Len(t)) = s

\* C8: the five files written by one generate call all end with the same body;
\* windsurf and common are the body itself, cursor, claude and copilot are a
\* fixed non-empty header of their own followed by the body.
C8_Variants ==
    output.done =>
        LET body == output.rules_content
            text(t) == output.written[FixedPath(t)].text
            header(t) == SubSeq(text(t), 1, Len(text(t)) - Len(body))
        IN /\ \A t \in Range(FixedTools) :
                 output.written[FixedPath(t)].exists /\ IsSuffix(body, text(t))
           /\ text("windsurf") = body
           /\ text("common") = body
           /\ header("cursor") = <<H_Cursor>>
           /\ header("claude") = <<H_Claude>>
           /\ header("copilot") = <<H_Copilot>>
           /\ Cardinality({H_Cursor, H_Claude, H_Copilot, ""}) = 4

C8_Witness ==
    /\ output.done
    /\ Len(input.packs) = 2
    /\ output.written[FixedPath("cursor")].text = <<H_Cursor>> \o output.rules_content
    /\ output.written[FixedPath("windsurf")].text = output.rules_content

----------------------------------------------------------------------------
(* StackSpec (models/stack_spec.py): construction and validation *)

\* str.lower() on one character
lower_char(c) ==
    CASE c = "A" -> "a" [] c = "B" -> "b" [] c = "D" -> "d" [] c = "I" -> "i"
      [] c = "N" -> "n" [] c = "X" -> "x" [] OTHER -> c

lower(s) == [i \in DOMAIN s |-> lower_char(s[i])]

isalpha(c) == c \in {"a", "b", "d", "i", "n", "x", "A", "B", "D", "I", "N", "X"}

\* mutant: the trailing-hyphen rule is missing
M_app_name_valid_no_trailing_rule(v) ==
    /\ v /= <<>>
    /\ isalpha(v[1])
    /\ ~StrIn(<<"-", "-">>, v)

\* the rules on the normalized application name
app_name_valid(v) ==
    /\ v /= <<>>
    /\ isalpha(v[1])
    /\ ~StrIn(<<"-", "-">>, v)
    /\ v[Len(v)] /= "-"

RECURSIVE M_dedup_raw(_, _)
M_dedup_raw(caps, seen) ==
    IF caps = <<>> THEN <<>>
    ELSE IF Head(caps) \in seen THEN M_dedup_raw(Tail(caps), seen)
    ELSE <<lower(Head(caps))>> \o M_dedup_raw(Tail(caps), seen \cup {Head(caps)})

RECURSIVE dedup(_, _)
\* lower-case each capability, keep the first occurrence of each
dedup(caps, seen) ==
    IF caps = <<>> THEN <<>>
    ELSE LET normalized == lower(Head(caps))
         IN IF normalized \in seen THEN dedup(Tail(caps), seen)
            ELSE <<normalized>> \o dedup(Tail(caps), seen \cup {normalized})

\* mutant: duplicates are detected on the raw strings, before lower-casing
M_normalize_capabilities_raw(capabilities) == M_dedup_raw(capabilities, {})

normalize_capabilities(capabilities) == dedup(capabilities, {})

Rejected == [done |-> TRUE, ok |-> FALSE, error |-> "app_name",
             app_name |-> <<>>, app_type |-> <<>>, stack_version |-> <<>>,
             capabilities |-> <<>>, stack_id |-> <<>>]

DefaultVersion == <<"2025.1">>

\* StackSpec(app_name=..., app_type=..., stack_version=..., capabilities=...)
StackSpec(app_name, app_type, stack_version, capabilities) ==
    LET name == lower(app_name)
        type == lower(app_type)
    IN IF ~app_name_valid(name) THEN Rejected
       ELSE [done |-> TRUE, ok |-> TRUE, error |-> "",
             app_name |-> name, app_type |-> type,
             stack_version |-> stack_version,
             capabilities |-> normalize_capabilities(capabilities),
             stack_id |-> type \o <<"@">> \o stack_version]

NameChars == {"a", "B", "1", "-"}
TypePool == {<<"n", "x">>, <<"N", "X">>}
CapPool == {<<"d", "b">>, <<"D", "B">>, <<"a", "i">>}

InitValidate ==
    /\ input \in {[app_name |-> n, app_type |-> t, capabilities |-> c] :
                     n \in SeqsUpTo(NameChars, MaxNameLen), t \in TypePool,
                     c \in SeqsUpTo(CapPool, MaxCaps)}
    /\ output = NoOutput
    /\ files = EmptyTree
    /\ last = NoCall
    /\ hist = NoHist
    /\ procs = Idle

Construct ==
    /\ ~output.done
    /\ output' = StackSpec(input.app_name, input.app_type, DefaultVersion,
                           input.capabilities)
    /\ UNCHANGED <<files, last, hist, procs, input>>

NextValidate == Construct

SpecValidate == InitValidate /\ [][NextValidate]_vars

\* lower-casing as the specification states it, on the characters of the pools
Lowered(s) ==
    [i \in DOMAIN s |->
        CASE s[i] = "B" -> "b" [] s[i] = "D" -> "d" [] s[i] = "N" -> "n"
          [] s[i] = "X" -> "x" [] OTHER -> s[i]]

HasDoubleHyphen(n) == \E i \in 1..(Len(n) - 1) : n[i] = "-" /\ n[i + 1] = "-"

FirstIndex(s, x) == CHOOSE i \in DOMAIN s : s[i] = x /\ \A j \in 1..(i - 1) : s[j] /= x

\* C6: the capabilities of a constructed specification are the lower-cased
\* inputs without duplicates, in the order of their first occurrences, and
\* processing them again changes nothing.
C6_Capabilities ==
    (output.done /\ output.ok) =>
        LET lowered == [i \in DOMAIN input.capabilities |-> Lowered(input.capabilities[i])]
            caps == output.capabilities
        IN /\ Range(caps) = Range(lowered)
           /\ \A i, j \in DOMAIN caps : i /= j => caps[i] /= caps[j]
           /\ \A i, j \in DOMAIN caps :
                 i < j => FirstIndex(lowered, caps[i]) < FirstIndex(lowered, caps[j])
           /\ normalize_capabilities(caps) = caps

C6_Witness ==
    /\ output.done /\ output.ok
    /\ input.capabilities = <<<<"d", "b">>, <<"D", "B">>, <<"a", "i">>>>
    /\ output.capabilities = <<<<"d", "b">>, <<"a", "i">>>>

----------------------------------------------------------------------------
(* SpecConc: two append_pack_rules invocations on the same tree, their     *)
(* file-system calls (exists, read_text, write_file) interleaved           *)

Procs == {1, 2}

ConcPacks == RulePacks \cup {PackEmpty}

Running(p) == procs[p].pc \notin {"idle", "done"}

InitConc ==
    /\ files \in [Paths -> {NoFile, [exists |-> TRUE, text |-> PriorText]}]
    /\ procs \in {[p \in Procs |->
                      [pack |-> ab[p], pc |-> "idle", i |-> 1,
                       existing_content |-> <<>>, result |-> FALSE]] :
                    ab \in {x \in ConcPacks \X ConcPacks : x[1] /= x[2]}}
    /\ hist = [order |-> <<>>, overlapped |-> FALSE]
    /\ last = NoCall
    /\ input = Idle
    /\ output = NoOutput

\* the loop moves on to the next tool, or the call returns True (line 138)
advance(pr) ==
    IF pr.i = Len(ToolOrder) THEN [pr EXCEPT !.pc = "done", !.result = TRUE]
    ELSE [pr EXCEPT !.pc = "exists", !.i = @ + 1]

\* entry of append_pack_rules: the test of lines 117-122
Call(p) ==
    /\ procs[p].pc = "idle"
    /\ procs' = [procs EXCEPT ![p] =
                    IF ~Truthy(procs[p].pack.rules_content)
                    THEN [@ EXCEPT !.pc = "done", !.result = FALSE]
                    ELSE [@ EXCEPT !.pc = "exists", !.i = 1]]
    /\ hist' = [order |-> Append(hist.order, p),
                overlapped |-> hist.overlapped \/ \E q \in Procs \ {p} : Running(q)]
    /\ UNCHANGED <<files, last, input, output>>

\* full_path.exists() (line 127)
Exists(p) ==
    /\ procs[p].pc = "exists"
    /\ procs' = [procs EXCEPT ![p] =
                    IF files[RULES_PATHS[ToolOrder[procs[p].i]]].exists
                    THEN [@ EXCEPT !.pc = "read"]
                    ELSE advance(@)]
    /\ UNCHANGED <<files, last, hist, input, output>>

\* existing_content = full_path.read_text() (line 128)
ReadText(p) ==
    /\ procs[p].pc = "read"
    /\ procs' = [procs EXCEPT ![p] =
                    [@ EXCEPT !.pc = "write",
                              !.existing_content =
                                  files[RULES_PATHS[ToolOrder[procs[p].i]]].text]]
    /\ UNCHANGED <<files, last, hist, input, output>>

\* file_writer.write_file(file_path, new_content) (lines 129-131)
WriteFile(p) ==
    /\ procs[p].pc = "write"
    /\ LET tool_name == ToolOrder[procs[p].i]
           pack_section == _format_pack_rules(procs[p].pack, tool_name)
       IN files' = write_file(files, RULES_PATHS[tool_name],
                              new_content(procs[p].existing_content, pack_section),
                              FALSE, FALSE)
    /\ procs' = [procs EXCEPT ![p] = advance(@)]
    /\ UNCHANGED <<last, hist, input, output>>

NextConc == \E p \in Procs : Call(p) \/ Exists(p) \/ ReadText(p) \/ WriteFile(p)

SpecConc == InitConc /\ [][NextConc]_vars

\* what a completed append of pack adds to tool t's file
Added(pack, t) ==
    IF Truthy(pack.rules_content) THEN <<"\n">> \o _format_pack_rules(pack, t)
    ELSE <<>>

\* C9: when two invocations have both returned, every file that existed holds
\* its prior content followed by both packs' sections or, the later write
\* having overwritten the earlier one, by only one of them; when the two did
\* not overlap in time it holds both sections, in call order; no file is created.
C9_LastWriterWins ==
    (\A p \in Procs : procs[p].pc = "done") =>
        \A t \in Range(FixedTools) :
            LET f == files[FixedPath(t)]
                a == Added(procs[1].pack, t)
                b == Added(procs[2].pack, t)
                first == Added(procs[hist.order[1]].pack, t)
                second == Added(procs[hist.order[2]].pack, t)
            IN /\ f.exists =>
                    /\ f.text \in {PriorText \o a \o b, PriorText \o b \o a,
                                   PriorText \o a, PriorText \o b}
                    /\ ~hist.overlapped => f.text = PriorText \o first \o second
               /\ ~f.exists => f = NoFile

C9_Witness ==
    /\ \A p \in Procs : procs[p].pc = "done" /\ procs[p].result
    /\ hist.overlapped
    /\ Cardinality({p \in FixedPaths : files[p].exists}) = 1
    /\ procs[1].existing_content = PriorText
    /\ procs[2].existing_content = PriorText
    /\ \E t \in Range(FixedTools) :
          /\ files[FixedPath(t)].exists
          /\ files[FixedPath(t)].text = PriorText \o Added(procs[2].pack, t)
          /\ ~StrIn(procs[1].pack.rules_content.text, files[FixedPath(t)].text)

====
